---- MODULE Spec2Model ----
(***************************************************************************)
(* Homopolymer decompression of PAF alignment records (src/src/main.rs):   *)
(* the per-record function hodeco_paf_line and the three-stage pipeline    *)
(* of main (input thread -> compute threads -> output thread) connected by *)
(* two bounded crossbeam channels.                                         *)
(***************************************************************************)
EXTENDS Integers, Sequences, FiniteSets, TLC

VARIABLES
    overflow_checks,      \* build profile: TRUE = arithmetic overflow panics, FALSE = it wraps
    query_hodeco_maps,    \* HashMap<String, Vec<usize>> of the query sequences
    target_hodeco_maps,   \* HashMap<String, Vec<usize>> of the target sequences
    hoco_paf,             \* argument of a direct call of hodeco_paf_line
    hodeco_result,        \* outcome of that call: NotCalled, Panic or Returned(record)
    configuration,        \* [queue_size, compute_threads, io_buffer_size]
    input_file,           \* the lines of the input file
    main_pc,              \* position of main inside crossbeam::scope
    spawned,              \* number of compute threads spawned so far
    input_pc,             \* input_thread: unspawned, read, send, exited, panicked
    input_position,       \* lines the input thread has consumed
    input_item,           \* the paf_line the input thread is sending
    input_channel,        \* messages in the channel (input_sender, input_receiver)
    compute_pc,           \* compute_thread_i: unspawned, recv, hodeco, send, exited, panicked
    compute_item,         \* the record or line compute_thread_i holds
    output_channel,       \* messages in the channel (output_sender, output_receiver)
    output_pc,            \* output_thread: unspawned, recv, write, exited, panicked
    output_item,          \* the line the output thread is writing
    output_file_writer,   \* the lines in the buffer of the BufWriter, in order
    output_file,          \* the lines that have reached the output file, in order
    write_failed          \* a write to the output file has returned an error

(***************************************************************************)
(* Machine integers.  usize is modelled with UsizeBits bits, isize is its  *)
(* two's complement reading.  A Vec or String cannot hold more than        *)
(* isize::MAX bytes, so no collection grows past IsizeMax elements.        *)
(***************************************************************************)
UsizeBits == 5

RECURSIVE Pow2(_)
Pow2(n) == IF n = 0 THEN 1 ELSE 2 * Pow2(n - 1)

Modulus == Pow2(UsizeBits)
UsizeMax == Modulus - 1
IsizeMax == Pow2(UsizeBits - 1) - 1
IsizeMin == 0 - Pow2(UsizeBits - 1)
CapacityLimit == IsizeMax

\* x is the mathematical result of a usize operation; it does not fit
Overflows(x) == x < 0 \/ x > UsizeMax
\* the value a wrapping usize operation stores
Wrap(x) == (x + Modulus) % Modulus
\* `x as isize`
AsIsize(x) == IF x > IsizeMax THEN x - Modulus ELSE x
\* the mathematical result of an isize operation does not fit
IsizeOverflows(x) == x < IsizeMin \/ x > IsizeMax
\* the value a wrapping isize operation stores
IsizeWrap(x) == AsIsize(Wrap(x + Modulus))

\* Option<T>
None == <<>>
Some(x) == <<x>>
IsSome(o) == Len(o) = 1
Unwrap(o) == o[1]

\* the element of a one-element set; {e(x) : x \in {v}} names the value v once in e
TheOne(S) == CHOOSE x \in S : TRUE

\* Vec indexing is zero-based: v[i]
At(v, i) == v[i + 1]
InBounds(v, i) == i >= 0 /\ i < Len(v)

\* outcome of a call
NotCalled == [state |-> "not_called"]
Panic == [state |-> "panic"]
Returned(paf) == [state |-> "returned", paf |-> paf]

\* a usize operation whose mathematical result is x panics (overflow checks on)
ArithPanics(x) == overflow_checks /\ Overflows(x)

(***************************************************************************)
(* Step 3 of hodeco_paf_line: one column of the CIGAR string.  st carries  *)
(* the loop's locals; the column is overwritten in place.                  *)
(***************************************************************************)
CigarState(query_offset, target_offset, matching, bases_and_gaps, cigar) ==
    [panic |-> FALSE, query_offset |-> query_offset, target_offset |-> target_offset,
     number_of_matching_bases |-> matching, number_of_bases_and_gaps |-> bases_and_gaps,
     cigar |-> cigar]

CigarPanic(st) == [st EXCEPT !.panic = TRUE]

CigarMatch(st, count, query_hodeco_map) ==
    LET query_limit == st.query_offset + count
        target_limit == st.target_offset + count
    IN  IF ArithPanics(query_limit) \/ ArithPanics(target_limit) THEN CigarPanic(st)
        ELSE IF ~InBounds(query_hodeco_map, Wrap(query_limit))
                \/ ~InBounds(query_hodeco_map, st.query_offset) THEN CigarPanic(st)
        ELSE LET difference == At(query_hodeco_map, Wrap(query_limit))
                               - At(query_hodeco_map, st.query_offset)
                 hodeco_count == Wrap(difference)
                 matching == st.number_of_matching_bases + hodeco_count
                 bases_and_gaps == st.number_of_bases_and_gaps + hodeco_count
             IN  IF ArithPanics(difference) \/ ArithPanics(matching)
                    \/ ArithPanics(bases_and_gaps) THEN CigarPanic(st)
                 ELSE CigarState(Wrap(query_limit), Wrap(target_limit), Wrap(matching),
                                 Wrap(bases_and_gaps),
                                 Append(st.cigar, [op |-> "Match", count |-> hodeco_count]))

\* a Deletion arm that advances the cursor and leaves the count as it was
CigarDeletionUnexpanded(st, count, target_hodeco_map) ==
    LET target_limit == st.target_offset + count
        bases_and_gaps == st.number_of_bases_and_gaps + count
    IN  IF ArithPanics(target_limit) \/ ArithPanics(bases_and_gaps) THEN CigarPanic(st)
        ELSE IF ~InBounds(target_hodeco_map, Wrap(target_limit)) THEN CigarPanic(st)
        ELSE CigarState(st.query_offset, Wrap(target_limit), st.number_of_matching_bases,
                        Wrap(bases_and_gaps),
                        Append(st.cigar, [op |-> "Deletion", count |-> count]))

CigarDeletion(st, count, target_hodeco_map) ==
    LET target_limit == st.target_offset + count
    IN  IF ArithPanics(target_limit) THEN CigarPanic(st)
        ELSE IF ~InBounds(target_hodeco_map, Wrap(target_limit))
                \/ ~InBounds(target_hodeco_map, st.target_offset) THEN CigarPanic(st)
        ELSE LET difference == At(target_hodeco_map, Wrap(target_limit))
                               - At(target_hodeco_map, st.target_offset)
                 hodeco_count == Wrap(difference)
                 bases_and_gaps == st.number_of_bases_and_gaps + hodeco_count
             IN  IF ArithPanics(difference) \/ ArithPanics(bases_and_gaps) THEN CigarPanic(st)
                 ELSE CigarState(st.query_offset, Wrap(target_limit),
                                 st.number_of_matching_bases, Wrap(bases_and_gaps),
                                 Append(st.cigar, [op |-> "Deletion", count |-> hodeco_count]))

\* an Insertion arm that leaves the query cursor where it was
CigarInsertionCursorKept(st, count, query_hodeco_map) ==
    LET query_limit == st.query_offset + count
    IN  IF ArithPanics(query_limit) THEN CigarPanic(st)
        ELSE IF ~InBounds(query_hodeco_map, Wrap(query_limit))
                \/ ~InBounds(query_hodeco_map, st.query_offset) THEN CigarPanic(st)
        ELSE LET difference == At(query_hodeco_map, Wrap(query_limit))
                               - At(query_hodeco_map, st.query_offset)
                 hodeco_count == Wrap(difference)
                 bases_and_gaps == st.number_of_bases_and_gaps + hodeco_count
             IN  IF ArithPanics(difference) \/ ArithPanics(bases_and_gaps) THEN CigarPanic(st)
                 ELSE CigarState(st.query_offset, st.target_offset,
                                 st.number_of_matching_bases, Wrap(bases_and_gaps),
                                 Append(st.cigar, [op |-> "Insertion", count |-> hodeco_count]))

CigarInsertion(st, count, query_hodeco_map) ==
    LET query_limit == st.query_offset + count
    IN  IF ArithPanics(query_limit) THEN CigarPanic(st)
        ELSE IF ~InBounds(query_hodeco_map, Wrap(query_limit))
                \/ ~InBounds(query_hodeco_map, st.query_offset) THEN CigarPanic(st)
        ELSE LET difference == At(query_hodeco_map, Wrap(query_limit))
                               - At(query_hodeco_map, st.query_offset)
                 hodeco_count == Wrap(difference)
                 bases_and_gaps == st.number_of_bases_and_gaps + hodeco_count
             IN  IF ArithPanics(difference) \/ ArithPanics(bases_and_gaps) THEN CigarPanic(st)
                 ELSE CigarState(Wrap(query_limit), st.target_offset,
                                 st.number_of_matching_bases, Wrap(bases_and_gaps),
                                 Append(st.cigar, [op |-> "Insertion", count |-> hodeco_count]))

\* a column step that takes a Mismatch run for a Match run
CigarColumnStepLenient(st, cigar_column, query_hodeco_map, target_hodeco_map) ==
    CASE cigar_column.op \in {"Match", "Mismatch"} ->
            CigarMatch(st, cigar_column.count, query_hodeco_map)
      [] cigar_column.op = "Deletion" -> CigarDeletion(st, cigar_column.count, target_hodeco_map)
      [] cigar_column.op = "Insertion" -> CigarInsertion(st, cigar_column.count, query_hodeco_map)

CigarColumnStep(st, cigar_column, query_hodeco_map, target_hodeco_map) ==
    CASE cigar_column.op = "Match" -> CigarMatch(st, cigar_column.count, query_hodeco_map)
      [] cigar_column.op = "Deletion" -> CigarDeletion(st, cigar_column.count, target_hodeco_map)
      [] cigar_column.op = "Insertion" -> CigarInsertion(st, cigar_column.count, query_hodeco_map)
      [] cigar_column.op = "Mismatch" -> CigarPanic(st)

\* for cigar_column in &mut cigar_string.0 { ... }, from column i on
RECURSIVE CigarWalk(_, _, _, _, _)
CigarWalk(st, cigar, i, query_hodeco_map, target_hodeco_map) ==
    IF st.panic \/ i > Len(cigar) THEN st
    ELSE TheOne({CigarWalk(next, cigar, i + 1, query_hodeco_map, target_hodeco_map) :
                 next \in {CigarColumnStep(st, cigar[i], query_hodeco_map,
                                           target_hodeco_map)}})

(***************************************************************************)
(* homopolymer_decompress_string: character index of input is pushed       *)
(* hodeco_map[index + 1] - hodeco_map[index] times.  The result is         *)
(* [panic, value]; from character `index` (zero-based) on.                 *)
(***************************************************************************)
RECURSIVE Repeat(_, _)
Repeat(character, count) == IF count = 0 THEN <<>> ELSE <<character>> \o Repeat(character, count - 1)

RECURSIVE DecompressFrom(_, _, _, _)
DecompressFrom(input, hodeco_map, index, result) ==
    IF index >= Len(input) THEN [panic |-> FALSE, value |-> result]
    ELSE IF ~InBounds(hodeco_map, index + 1) THEN [panic |-> TRUE, value |-> result]
    ELSE LET difference == At(hodeco_map, index + 1) - At(hodeco_map, index)
             count == Wrap(difference)
         IN  IF ArithPanics(difference) \/ Len(result) + count > CapacityLimit
             THEN [panic |-> TRUE, value |-> result]
             ELSE DecompressFrom(input, hodeco_map, index + 1,
                                 result \o Repeat(At(input, index), count))

homopolymer_decompress_string(input, hodeco_map) == DecompressFrom(input, hodeco_map, 0, <<>>)

\* &v[from..to]: [panic, value]
Slice(v, from, to) ==
    IF from > to \/ to > Len(v) THEN [panic |-> TRUE, value |-> <<>>]
    ELSE [panic |-> FALSE, value |-> SubSeq(v, from + 1, to)]

(***************************************************************************)
(* Step 4 of hodeco_paf_line: one column of the difference string.         *)
(***************************************************************************)
DifferenceState(query_offset, target_offset, total, difference_string, mismatch_insertion) ==
    [panic |-> FALSE, query_offset |-> query_offset, target_offset |-> target_offset,
     total_number_of_mismatches_and_gaps |-> total,
     difference_string |-> difference_string, mismatch_insertion |-> mismatch_insertion]

DifferencePanic(st) == [st EXCEPT !.panic = TRUE]

DifferenceMatch(st, length, query_hodeco_map) ==
    LET query_limit == st.query_offset + length
        target_limit == st.target_offset + length
    IN  IF ArithPanics(query_limit) \/ ArithPanics(target_limit) THEN DifferencePanic(st)
        ELSE IF ~InBounds(query_hodeco_map, Wrap(query_limit))
                \/ ~InBounds(query_hodeco_map, st.query_offset) THEN DifferencePanic(st)
        ELSE LET difference == At(query_hodeco_map, Wrap(query_limit))
                               - At(query_hodeco_map, st.query_offset)
             IN  IF ArithPanics(difference) THEN DifferencePanic(st)
                 ELSE DifferenceState(Wrap(query_limit), Wrap(target_limit),
                          st.total_number_of_mismatches_and_gaps,
                          Append(st.difference_string,
                                 [op |-> "Match", length |-> Wrap(difference)]),
                          st.mismatch_insertion)

\* a Deletion arm that advances the target cursor by the decompressed length
DifferenceDeletionAdvancingByHodeco(st, missing_query_characters, target_hodeco_map) ==
    LET target_limit == st.target_offset + Len(missing_query_characters)
        slice_end == Wrap(target_limit) + 1
    IN  IF ArithPanics(target_limit) \/ ArithPanics(slice_end) THEN DifferencePanic(st)
        ELSE LET slice == Slice(target_hodeco_map, st.target_offset, Wrap(slice_end))
                 hodeco == homopolymer_decompress_string(missing_query_characters, slice.value)
                 total == st.total_number_of_mismatches_and_gaps + Len(hodeco.value)
             IN  IF slice.panic THEN DifferencePanic(st)
                 ELSE IF hodeco.panic \/ ArithPanics(total) THEN DifferencePanic(st)
                 ELSE DifferenceState(st.query_offset,
                          Wrap(st.target_offset + Len(hodeco.value)), Wrap(total),
                          Append(st.difference_string,
                                 [op |-> "Deletion", missing_query_characters |-> hodeco.value]),
                          st.mismatch_insertion)

DifferenceDeletion(st, missing_query_characters, target_hodeco_map) ==
    LET target_limit == st.target_offset + Len(missing_query_characters)
        slice_end == Wrap(target_limit) + 1
    IN  IF ArithPanics(target_limit) \/ ArithPanics(slice_end) THEN DifferencePanic(st)
        ELSE LET slice == Slice(target_hodeco_map, st.target_offset, Wrap(slice_end))
                 hodeco == homopolymer_decompress_string(missing_query_characters, slice.value)
                 total == st.total_number_of_mismatches_and_gaps + Len(hodeco.value)
             IN  IF slice.panic THEN DifferencePanic(st)
                 ELSE IF hodeco.panic \/ ArithPanics(total) THEN DifferencePanic(st)
                 ELSE DifferenceState(st.query_offset, Wrap(target_limit), Wrap(total),
                          Append(st.difference_string,
                                 [op |-> "Deletion", missing_query_characters |-> hodeco.value]),
                          st.mismatch_insertion)

DifferenceInsertion(st, superfluous_query_characters, query_hodeco_map) ==
    LET query_limit == st.query_offset + Len(superfluous_query_characters)
        slice_end == Wrap(query_limit) + 1
    IN  IF ArithPanics(query_limit) \/ ArithPanics(slice_end) THEN DifferencePanic(st)
        ELSE LET slice == Slice(query_hodeco_map, st.query_offset, Wrap(slice_end))
                 hodeco == homopolymer_decompress_string(superfluous_query_characters, slice.value)
                 total == st.total_number_of_mismatches_and_gaps + Len(hodeco.value)
             IN  IF slice.panic THEN DifferencePanic(st)
                 ELSE IF hodeco.panic \/ ArithPanics(total) THEN DifferencePanic(st)
                 ELSE DifferenceState(Wrap(query_limit), st.target_offset, Wrap(total),
                          Append(st.difference_string,
                                 [op |-> "Insertion",
                                  superfluous_query_characters |-> hodeco.value]),
                          st.mismatch_insertion)

\* a Mismatch arm that schedules one insertion per decompressed base
DifferenceMismatchNoDecrement(st, index, reference, query, query_hodeco_map) ==
    LET query_limit == st.query_offset + 1
        target_limit == st.target_offset + 1
    IN  IF ArithPanics(query_limit) \/ ArithPanics(target_limit) THEN DifferencePanic(st)
        ELSE IF ~InBounds(query_hodeco_map, Wrap(query_limit))
                \/ ~InBounds(query_hodeco_map, st.query_offset) THEN DifferencePanic(st)
        ELSE LET difference == At(query_hodeco_map, Wrap(query_limit))
                               - At(query_hodeco_map, st.query_offset)
                 hodeco_count == Wrap(difference)
                 total == st.total_number_of_mismatches_and_gaps + hodeco_count
             IN  IF ArithPanics(difference) \/ ArithPanics(total) THEN DifferencePanic(st)
                 ELSE DifferenceState(Wrap(query_limit), Wrap(target_limit), Wrap(total),
                          Append(st.difference_string,
                                 [op |-> "Mismatch", reference |-> reference, query |-> query]),
                          Append(st.mismatch_insertion,
                                 <<index, hodeco_count, reference, query>>))

\* index is the zero-based position of the column in the difference string
DifferenceMismatch(st, index, reference, query, query_hodeco_map) ==
    LET query_limit == st.query_offset + 1
        target_limit == st.target_offset + 1
    IN  IF ArithPanics(query_limit) \/ ArithPanics(target_limit) THEN DifferencePanic(st)
        ELSE IF ~InBounds(query_hodeco_map, Wrap(query_limit))
                \/ ~InBounds(query_hodeco_map, st.query_offset) THEN DifferencePanic(st)
        ELSE LET difference == At(query_hodeco_map, Wrap(query_limit))
                               - At(query_hodeco_map, st.query_offset)
                 decremented == Wrap(difference) - 1
                 hodeco_count == Wrap(decremented)
                 total == st.total_number_of_mismatches_and_gaps + hodeco_count
             IN  IF ArithPanics(difference) \/ ArithPanics(decremented) \/ ArithPanics(total)
                 THEN DifferencePanic(st)
                 ELSE DifferenceState(Wrap(query_limit), Wrap(target_limit), Wrap(total),
                          Append(st.difference_string,
                                 [op |-> "Mismatch", reference |-> reference, query |-> query]),
                          Append(st.mismatch_insertion,
                                 <<index, hodeco_count, reference, query>>))

DifferenceColumnStep(st, index, difference_column, query_hodeco_map, target_hodeco_map) ==
    CASE difference_column.op = "Match" ->
            DifferenceMatch(st, difference_column.length, query_hodeco_map)
      [] difference_column.op = "Deletion" ->
            DifferenceDeletion(st, difference_column.missing_query_characters, target_hodeco_map)
      [] difference_column.op = "Insertion" ->
            DifferenceInsertion(st, difference_column.superfluous_query_characters,
                                query_hodeco_map)
      [] difference_column.op = "Mismatch" ->
            DifferenceMismatch(st, index, difference_column.reference, difference_column.query,
                               query_hodeco_map)

\* for (index, difference_column) in difference_string.0.iter_mut().enumerate() { ... }
RECURSIVE DifferenceWalk(_, _, _, _, _)
DifferenceWalk(st, difference_string, index, query_hodeco_map, target_hodeco_map) ==
    IF st.panic \/ index >= Len(difference_string) THEN st
    ELSE TheOne({DifferenceWalk(next, difference_string, index + 1, query_hodeco_map,
                                target_hodeco_map) :
                 next \in {DifferenceColumnStep(st, index, At(difference_string, index),
                                                query_hodeco_map, target_hodeco_map)}})

\* Vec::insert(index, element)
VecInsert(v, index, element) ==
    SubSeq(v, 1, index) \o <<element>> \o SubSeq(v, index + 1, Len(v))

\* for _ in 0..hodeco_count { difference_string.0.insert(index, Mismatch{..}) }
RECURSIVE InsertMismatches(_, _, _, _)
InsertMismatches(difference_string, index, hodeco_count, column) ==
    IF hodeco_count = 0 THEN difference_string
    ELSE InsertMismatches(VecInsert(difference_string, index, column), index,
                          hodeco_count - 1, column)

\* the insertions applied in the order they were recorded: entry 1, then 2, ...
RECURSIVE ApplyMismatchInsertionForward(_, _, _)
ApplyMismatchInsertionForward(difference_string, mismatch_insertion, k) ==
    IF k = 0 THEN [panic |-> FALSE, value |-> difference_string]
    ELSE LET entry == mismatch_insertion[Len(mismatch_insertion) - k + 1]
         IN  IF Len(difference_string) + entry[2] > CapacityLimit
             THEN [panic |-> TRUE, value |-> difference_string]
             ELSE ApplyMismatchInsertionForward(
                      InsertMismatches(difference_string, entry[1], entry[2],
                          [op |-> "Mismatch", reference |-> entry[3], query |-> entry[4]]),
                      mismatch_insertion, k - 1)

\* for (..) in mismatch_insertion.into_iter().rev(): entry k, then k - 1, ... ; [panic, value]
RECURSIVE ApplyMismatchInsertion(_, _, _)
ApplyMismatchInsertion(difference_string, mismatch_insertion, k) ==
    IF k = 0 THEN [panic |-> FALSE, value |-> difference_string]
    ELSE LET entry == mismatch_insertion[k]
         IN  IF Len(difference_string) + entry[2] > CapacityLimit
             THEN [panic |-> TRUE, value |-> difference_string]
             ELSE ApplyMismatchInsertion(
                      InsertMismatches(difference_string, entry[1], entry[2],
                          [op |-> "Mismatch", reference |-> entry[3], query |-> entry[4]]),
                      mismatch_insertion, k - 1)

(***************************************************************************)
(* Step 5: a divergence is an f64; it is modelled by the exact fraction    *)
(* <<numerator, denominator>> in lowest terms (denominator 0: inf or NaN). *)
(***************************************************************************)
RECURSIVE Gcd(_, _)
Gcd(a, b) == IF b = 0 THEN a ELSE Gcd(b, a % b)

Fraction(numerator, denominator) ==
    LET g == Gcd(numerator, denominator)
    IN  IF g = 0 THEN <<0, 0>> ELSE <<numerator \div g, denominator \div g>>

ScaleDivergence(divergence, hodeco_length, hoco_length) ==
    IF IsSome(divergence)
    THEN Some(Fraction(Unwrap(divergence)[1] * hodeco_length,
                       Unwrap(divergence)[2] * hoco_length))
    ELSE None

\* assert!(end as isize - start as isize > 0) fails, or the subtraction overflows and panics
SpanAssertPanics(start, end) ==
    LET difference == AsIsize(end) - AsIsize(start)
    IN  \/ overflow_checks /\ IsizeOverflows(difference)
        \/ ~(IsizeWrap(difference) > 0)

(***************************************************************************)
(* hodeco_paf_line, in the order of the source: table lookup, validation   *)
(* and scalar remapping (HodecoScalars), the CIGAR string (HodecoCigar),   *)
(* the difference string (HodecoDifference), the divergences.  Each part   *)
(* yields [panic, paf].                                                    *)
(***************************************************************************)
\* a remapping that leaves the query end coordinate as it was
RemapScalarsQueryEndKept(paf, query_hodeco_map, target_hodeco_map) ==
    [paf EXCEPT
        !.query_sequence_length = query_hodeco_map[Len(query_hodeco_map)],
        !.target_sequence_length = target_hodeco_map[Len(target_hodeco_map)],
        !.query_start_coordinate = At(query_hodeco_map, paf.query_start_coordinate),
        !.target_start_coordinate_on_original_strand =
            At(target_hodeco_map, paf.target_start_coordinate_on_original_strand),
        !.target_end_coordinate_on_original_strand =
            At(target_hodeco_map, paf.target_end_coordinate_on_original_strand)]

\* the assignments of the lengths and of the four coordinates
RemapScalars(paf, query_hodeco_map, target_hodeco_map) ==
    [paf EXCEPT
        !.query_sequence_length = query_hodeco_map[Len(query_hodeco_map)],
        !.target_sequence_length = target_hodeco_map[Len(target_hodeco_map)],
        !.query_start_coordinate = At(query_hodeco_map, paf.query_start_coordinate),
        !.query_end_coordinate = At(query_hodeco_map, paf.query_end_coordinate),
        !.target_start_coordinate_on_original_strand =
            At(target_hodeco_map, paf.target_start_coordinate_on_original_strand),
        !.target_end_coordinate_on_original_strand =
            At(target_hodeco_map, paf.target_end_coordinate_on_original_strand)]

HodecoScalars(paf, query_hodeco_map, target_hodeco_map) ==
    LET query_len_minus_1 == Len(query_hodeco_map) - 1
        target_len_minus_1 == Len(target_hodeco_map) - 1
    IN  IF ArithPanics(query_len_minus_1)
           \/ paf.query_sequence_length # Wrap(query_len_minus_1)
           \/ ArithPanics(target_len_minus_1)
           \/ paf.target_sequence_length # Wrap(target_len_minus_1)
           \/ Len(query_hodeco_map) = 0 \/ Len(target_hodeco_map) = 0
        THEN [panic |-> TRUE, paf |-> paf]
        ELSE IF ~InBounds(query_hodeco_map, paf.query_start_coordinate)
                \/ ~InBounds(query_hodeco_map, paf.query_end_coordinate)
                \/ ~InBounds(target_hodeco_map, paf.target_start_coordinate_on_original_strand)
                \/ ~InBounds(target_hodeco_map, paf.target_end_coordinate_on_original_strand)
        THEN [panic |-> TRUE, paf |-> paf]
        ELSE LET hodeco == RemapScalars(paf, query_hodeco_map, target_hodeco_map)
             IN  [panic |-> SpanAssertPanics(hodeco.query_start_coordinate,
                                             hodeco.query_end_coordinate)
                            \/ SpanAssertPanics(hodeco.target_start_coordinate_on_original_strand,
                                                hodeco.target_end_coordinate_on_original_strand),
                  paf |-> hodeco]

\* the counts and the CIGAR string the walk ends with are stored in the record
CigarWalked(paf, st) ==
    IF st.panic THEN [panic |-> TRUE, paf |-> paf]
    ELSE [panic |-> FALSE,
          paf |-> [paf EXCEPT
              !.cigar_string = Some(st.cigar),
              !.number_of_matching_bases = st.number_of_matching_bases,
              !.number_of_bases_and_gaps = st.number_of_bases_and_gaps]]

\* if let Some(cigar_string) = &mut hoco_paf.cigar_string { ... }
HodecoCigar(paf, hoco_query_start, hoco_target_start, query_hodeco_map, target_hodeco_map) ==
    IF ~IsSome(paf.cigar_string) THEN [panic |-> FALSE, paf |-> paf]
    ELSE TheOne({CigarWalked(paf, st) :
                 st \in {CigarWalk(CigarState(hoco_query_start, hoco_target_start, 0, 0, <<>>),
                                   Unwrap(paf.cigar_string), 1, query_hodeco_map,
                                   target_hodeco_map)}})

\* the difference string after the insertions and the total are stored in the record
MismatchesInserted(paf, st, inserted) ==
    IF inserted.panic THEN [panic |-> TRUE, paf |-> paf]
    ELSE [panic |-> FALSE,
          paf |-> [paf EXCEPT
              !.difference_string = Some(inserted.value),
              !.total_number_of_mismatches_and_gaps =
                  Some(st.total_number_of_mismatches_and_gaps)]]

\* the second loop, over mismatch_insertion in reverse
DifferenceWalked(paf, st) ==
    IF st.panic THEN [panic |-> TRUE, paf |-> paf]
    ELSE TheOne({MismatchesInserted(paf, st, inserted) :
                 inserted \in {ApplyMismatchInsertion(st.difference_string,
                                                      st.mismatch_insertion,
                                                      Len(st.mismatch_insertion))}})

\* if let Some(difference_string) = &mut hoco_paf.difference_string { ... }
HodecoDifference(paf, hoco_query_start, hoco_target_start, query_hodeco_map, target_hodeco_map) ==
    IF ~IsSome(paf.difference_string) THEN [panic |-> FALSE, paf |-> paf]
    ELSE TheOne({DifferenceWalked(paf, st) :
                 st \in {DifferenceWalk(
                             DifferenceState(hoco_query_start, hoco_target_start, 0, <<>>, <<>>),
                             Unwrap(paf.difference_string), 0, query_hodeco_map,
                             target_hodeco_map)}})

HodecoDivergence(paf, hoco_query_sequence_length) ==
    [paf EXCEPT
        !.approximate_per_base_sequence_divergence =
            ScaleDivergence(@, paf.query_sequence_length, hoco_query_sequence_length),
        !.gap_compressed_per_base_sequence_divergence =
            ScaleDivergence(@, paf.query_sequence_length, hoco_query_sequence_length)]

\* lines 257 - 334, on the record the CIGAR walk has left
AfterCigar(cigar, paf, query_hodeco_map, target_hodeco_map) ==
    IF cigar.panic THEN Panic
    ELSE TheOne({IF difference.panic THEN Panic
                 ELSE Returned(HodecoDivergence(difference.paf, paf.query_sequence_length)) :
                 difference \in {HodecoDifference(cigar.paf, paf.query_start_coordinate,
                                     paf.target_start_coordinate_on_original_strand,
                                     query_hodeco_map, target_hodeco_map)}})

\* lines 209 - 334, on the record with its remapped lengths and coordinates
AfterScalars(scalars, paf, query_hodeco_map, target_hodeco_map) ==
    IF scalars.panic THEN Panic
    ELSE TheOne({AfterCigar(cigar, paf, query_hodeco_map, target_hodeco_map) :
                 cigar \in {HodecoCigar(scalars.paf, paf.query_start_coordinate,
                                paf.target_start_coordinate_on_original_strand,
                                query_hodeco_map, target_hodeco_map)}})

\* paf is the record as it is passed in: its start coordinates and its query length are
\* the hoco_query_start, hoco_target_start and hoco_query_sequence_length of the source
hodeco_paf_line(paf, query_maps, target_maps) ==
    IF paf.query_sequence_name \notin DOMAIN query_maps
       \/ paf.target_sequence_name \notin DOMAIN target_maps THEN Panic
    ELSE LET query_hodeco_map == query_maps[paf.query_sequence_name]
             target_hodeco_map == target_maps[paf.target_sequence_name]
         IN  TheOne({AfterScalars(scalars, paf, query_hodeco_map, target_hodeco_map) :
                     scalars \in {HodecoScalars(paf, query_hodeco_map, target_hodeco_map)}})

(***************************************************************************)
(* Inputs of the direct calls.  PAFLine is the record of crate             *)
(* minimap2_paf_io; the fields hodeco_paf_line never reads (strand,        *)
(* mapping quality) are carried along.                                     *)
(***************************************************************************)
MaxTableLen == 3        \* entries of an enumerated offset table (all values free)
MaxRuns == 3            \* compressed length of an enumerated well-formed table
RunLengths == 0..2      \* homopolymer run lengths of a well-formed table (0: a repeated entry)
MaxCigarLen == 2        \* columns of an enumerated CIGAR string
MaxDifferenceLen == 2   \* columns of an enumerated difference string

SeqsUpTo(S, n) == UNION {[1..k -> S] : k \in 0..n}

\* non-decreasing tables with T[0] = 0 of exactly n entries
RECURSIVE WellFormedTablesOfLen(_)
WellFormedTablesOfLen(n) ==
    IF n = 1 THEN {<<0>>}
    ELSE {Append(t, t[Len(t)] + d) : t \in WellFormedTablesOfLen(n - 1), d \in RunLengths}

WellFormedTables == UNION {WellFormedTablesOfLen(n) : n \in 1..(MaxRuns + 1)}

\* any Vec<usize> the map file can hold: empty, decreasing, T[0] # 0, huge entries
FreeTables == SeqsUpTo({0, 1, 2, UsizeMax}, MaxTableLen)

AllTables == WellFormedTables \cup FreeTables

\* the tables of the other sequence when one side is enumerated
SampleTables == {<<0, 1, 2, 3>>, <<0, 2, 2, 5>>, <<0, 2, 1, 3>>}

SequenceNames == {"seq1", "seq2"}

PafLine(query_name, query_length, query_start, query_end, target_name, target_length, target_start, target_end, matching, bases_and_gaps, cigar_string, difference_string, total, divergence) ==
    [query_sequence_name |-> query_name,
     query_sequence_length |-> query_length,
     query_start_coordinate |-> query_start,
     query_end_coordinate |-> query_end,
     strand |-> "+",
     target_sequence_name |-> target_name,
     target_sequence_length |-> target_length,
     target_start_coordinate_on_original_strand |-> target_start,
     target_end_coordinate_on_original_strand |-> target_end,
     number_of_matching_bases |-> matching,
     number_of_bases_and_gaps |-> bases_and_gaps,
     mapping_quality |-> 60,
     cigar_string |-> cigar_string,
     difference_string |-> difference_string,
     total_number_of_mismatches_and_gaps |-> total,
     approximate_per_base_sequence_divergence |-> divergence,
     gap_compressed_per_base_sequence_divergence |-> divergence]

vars == <<overflow_checks, query_hodeco_maps, target_hodeco_maps, hoco_paf, hodeco_result,
          configuration, input_file, main_pc, spawned, input_pc, input_position, input_item,
          input_channel, compute_pc, compute_item, output_channel, output_pc, output_item,
          output_file_writer, output_file, write_failed>>

hodeco_vars == <<overflow_checks, query_hodeco_maps, target_hodeco_maps>>
call_vars == <<hoco_paf, hodeco_result>>
config_vars == <<configuration, input_file>>
main_vars == <<main_pc, spawned>>
input_vars == <<input_pc, input_position, input_item>>
compute_vars == <<compute_pc, compute_item>>
output_vars == <<output_pc, output_item, output_file_writer, output_file, write_failed>>
file_vars == <<output_file_writer, output_file, write_failed>>

(***************************************************************************)
(* The pipeline of main.  A line of the input file is a parsable record    *)
(* or a line on which lines() or parse_line fails.                         *)
(***************************************************************************)
MaxLines == 2            \* lines of the input file
MaxComputeThreads == 2   \* --compute-threads
MaxQueueSize == 1        \* --queue-size
MaxIoBufferSize == 1     \* --io-buffer-size, in lines

Unparsable == [kind |-> "unparsable"]
Parsable(paf) == [kind |-> "paf", paf |-> paf]
\* what a thread holds: nothing, the local paf_line or the local hodeco_paf_line
NoItem == [none |-> TRUE]
PafItem(paf) == [paf_line |-> paf]
LineItem(line) == [hodeco_paf_line |-> line]

\* PAFLine::to_string: the twelve columns, then the tags that are present
to_string(paf) ==
    <<paf.query_sequence_name, paf.query_sequence_length, paf.query_start_coordinate,
      paf.query_end_coordinate, paf.strand, paf.target_sequence_name,
      paf.target_sequence_length, paf.target_start_coordinate_on_original_strand,
      paf.target_end_coordinate_on_original_strand, paf.number_of_matching_bases,
      paf.number_of_bases_and_gaps, paf.mapping_quality>>
    \o (IF IsSome(paf.total_number_of_mismatches_and_gaps)
        THEN <<<<"NM", Unwrap(paf.total_number_of_mismatches_and_gaps)>>>> ELSE <<>>)
    \o (IF IsSome(paf.approximate_per_base_sequence_divergence)
        THEN <<<<"dv", Unwrap(paf.approximate_per_base_sequence_divergence)>>>> ELSE <<>>)
    \o (IF IsSome(paf.gap_compressed_per_base_sequence_divergence)
        THEN <<<<"de", Unwrap(paf.gap_compressed_per_base_sequence_divergence)>>>> ELSE <<>>)
    \o (IF IsSome(paf.cigar_string) THEN <<<<"cg", Unwrap(paf.cigar_string)>>>> ELSE <<>>)
    \o (IF IsSome(paf.difference_string)
        THEN <<<<"cs", Unwrap(paf.difference_string)>>>> ELSE <<>>)

ComputeThreadIds == 0..(configuration.compute_threads - 1)

Terminated(pc) == pc \in {"exited", "panicked"}
Running(pc) == pc \notin {"unspawned", "exited", "panicked"}

\* a closure whose input_receiver and output_sender live until the threads are joined
MainHoldsHandlesUntilJoined == main_pc \in {"spawn_input", "spawn_output", "spawn_compute", "join"}

\* the closure of crossbeam::scope still owns input_receiver and output_sender
MainHoldsHandles == main_pc \in {"spawn_input", "spawn_output", "spawn_compute"}

InputSenderAlive == ~Terminated(input_pc)
InputReceiverAlive == MainHoldsHandles \/ \E i \in ComputeThreadIds : Running(compute_pc[i])
OutputSenderAlive == MainHoldsHandles \/ \E i \in ComputeThreadIds : Running(compute_pc[i])
OutputReceiverAlive == ~Terminated(output_pc)

AnyPanicked ==
    \/ input_pc = "panicked"
    \/ output_pc = "panicked"
    \/ \E i \in ComputeThreadIds : compute_pc[i] = "panicked"

AllTerminated ==
    /\ Terminated(input_pc)
    /\ Terminated(output_pc)
    /\ \A i \in ComputeThreadIds : Terminated(compute_pc[i])

(************************* main, lines 99 - 162 ****************************)
MainSpawnInput ==
    /\ main_pc = "spawn_input"
    /\ main_pc' = "spawn_output"
    /\ input_pc' = "read"
    /\ UNCHANGED <<hodeco_vars, call_vars, config_vars, spawned, input_position, input_item,
                   input_channel, compute_vars, output_channel, output_vars>>

MainSpawnOutput ==
    /\ main_pc = "spawn_output"
    /\ main_pc' = "spawn_compute"
    /\ output_pc' = "recv"
    /\ UNCHANGED <<hodeco_vars, call_vars, config_vars, spawned, input_vars, input_channel,
                   compute_vars, output_channel, output_item, file_vars>>

MainSpawnCompute ==
    /\ main_pc = "spawn_compute"
    /\ spawned < configuration.compute_threads
    /\ compute_pc' = [compute_pc EXCEPT ![spawned] = "recv"]
    /\ spawned' = spawned + 1
    /\ UNCHANGED <<hodeco_vars, call_vars, config_vars, main_pc, input_vars, input_channel,
                   compute_item, output_channel, output_vars>>

\* the closure returns: input_receiver and output_sender are dropped, the scope joins
MainEndScope ==
    /\ main_pc = "spawn_compute"
    /\ spawned = configuration.compute_threads
    /\ main_pc' = "join"
    /\ UNCHANGED <<hodeco_vars, call_vars, config_vars, spawned, input_vars, input_channel,
                   compute_vars, output_channel, output_vars>>

\* all threads are joined; the scope's result is Err iff one of them panicked
MainJoin ==
    /\ main_pc = "join"
    /\ AllTerminated
    /\ main_pc' = IF AnyPanicked THEN "failed" ELSE "done"
    /\ UNCHANGED <<hodeco_vars, call_vars, config_vars, spawned, input_vars, input_channel,
                   compute_vars, output_channel, output_vars>>

(********************** input_thread, lines 104 - 118 **********************)
\* the next line of lines(): end of file, a read or parse error, or a record
InputRead ==
    /\ input_pc = "read"
    /\ IF input_position = Len(input_file)
       THEN /\ input_pc' = "exited"
            /\ UNCHANGED <<input_position, input_item>>
       ELSE IF input_file[input_position + 1].kind = "unparsable"
       THEN /\ input_pc' = "panicked"
            /\ UNCHANGED <<input_position, input_item>>
       ELSE /\ input_pc' = "send"
            /\ input_position' = input_position + 1
            /\ input_item' = PafItem(input_file[input_position + 1].paf)
    /\ UNCHANGED <<hodeco_vars, call_vars, config_vars, main_vars, input_channel,
                   compute_vars, output_channel, output_vars>>

\* a send that does not wait for room in the channel
InputSendUnbounded ==
    /\ input_pc = "send"
    /\ InputReceiverAlive
    /\ input_channel' = Append(input_channel, input_item.paf_line)
    /\ input_pc' = "read"
    /\ input_item' = NoItem
    /\ UNCHANGED <<hodeco_vars, call_vars, config_vars, main_vars, input_position,
                   compute_vars, output_channel, output_vars>>

\* input_sender.send(paf_line) finds room (it blocks while the channel is full)
InputSend ==
    /\ input_pc = "send"
    /\ InputReceiverAlive
    /\ Len(input_channel) < configuration.queue_size
    /\ input_channel' = Append(input_channel, input_item.paf_line)
    /\ input_pc' = "read"
    /\ input_item' = NoItem
    /\ UNCHANGED <<hodeco_vars, call_vars, config_vars, main_vars, input_position,
                   compute_vars, output_channel, output_vars>>

\* input_sender.send(paf_line) returns Err: every receiver is gone
InputSendDisconnected ==
    /\ input_pc = "send"
    /\ ~InputReceiverAlive
    /\ input_pc' = "panicked"
    /\ input_item' = NoItem
    /\ UNCHANGED <<hodeco_vars, call_vars, config_vars, main_vars, input_position,
                   input_channel, compute_vars, output_channel, output_vars>>

(****************** compute_thread_{i}, lines 147 - 156 ********************)
\* a recv() that leaves the message it returns in the channel
ComputeRecvWithoutPop(i) ==
    /\ compute_pc[i] = "recv"
    /\ input_channel # <<>>
    /\ compute_item' = [compute_item EXCEPT ![i] = PafItem(Head(input_channel))]
    /\ compute_pc' = [compute_pc EXCEPT ![i] = "hodeco"]
    /\ UNCHANGED <<hodeco_vars, call_vars, config_vars, main_vars, input_vars, input_channel,
                   output_channel, output_vars>>

\* input_receiver.recv() returns a message of the channel
ComputeRecv(i) ==
    /\ compute_pc[i] = "recv"
    /\ input_channel # <<>>
    /\ compute_item' = [compute_item EXCEPT ![i] = PafItem(Head(input_channel))]
    /\ input_channel' = Tail(input_channel)
    /\ compute_pc' = [compute_pc EXCEPT ![i] = "hodeco"]
    /\ UNCHANGED <<hodeco_vars, call_vars, config_vars, main_vars, input_vars,
                   output_channel, output_vars>>

\* a zero-capacity channel hands the message of a blocked send over to recv()
ComputeRecvRendezvous(i) ==
    /\ compute_pc[i] = "recv"
    /\ configuration.queue_size = 0
    /\ input_pc = "send"
    /\ compute_item' = [compute_item EXCEPT ![i] = input_item]
    /\ compute_pc' = [compute_pc EXCEPT ![i] = "hodeco"]
    /\ input_pc' = "read"
    /\ input_item' = NoItem
    /\ UNCHANGED <<hodeco_vars, call_vars, config_vars, main_vars, input_position,
                   input_channel, output_channel, output_vars>>

\* input_receiver.recv() returns Err: the channel is empty and its sender is gone
ComputeRecvDisconnected(i) ==
    /\ compute_pc[i] = "recv"
    /\ input_channel = <<>>
    /\ ~InputSenderAlive
    /\ compute_pc' = [compute_pc EXCEPT ![i] = "exited"]
    /\ UNCHANGED <<hodeco_vars, call_vars, config_vars, main_vars, input_vars, input_channel,
                   compute_item, output_channel, output_vars>>

\* a compute thread that takes the table of the query sequence out of the map it reads
ComputeHodecoTakingTable(i) ==
    /\ compute_pc[i] = "hodeco"
    /\ \E result \in {hodeco_paf_line(compute_item[i].paf_line, query_hodeco_maps,
                                        target_hodeco_maps)} :
           IF result = Panic
           THEN /\ compute_pc' = [compute_pc EXCEPT ![i] = "panicked"]
                /\ compute_item' = [compute_item EXCEPT ![i] = NoItem]
           ELSE /\ compute_pc' = [compute_pc EXCEPT ![i] = "send"]
                /\ compute_item' = [compute_item EXCEPT ![i] = LineItem(to_string(result.paf))]
    /\ query_hodeco_maps' =
           [name \in DOMAIN query_hodeco_maps \ {compute_item[i].paf_line.query_sequence_name} |->
               query_hodeco_maps[name]]
    /\ UNCHANGED <<overflow_checks, target_hodeco_maps, call_vars, config_vars, main_vars,
                   input_vars, input_channel, output_channel, output_vars>>

\* hodeco_paf_line(paf_line, ..).to_string(), or the panic of hodeco_paf_line
ComputeHodeco(i) ==
    /\ compute_pc[i] = "hodeco"
    /\ \E result \in {hodeco_paf_line(compute_item[i].paf_line, query_hodeco_maps,
                                        target_hodeco_maps)} :
           IF result = Panic
           THEN /\ compute_pc' = [compute_pc EXCEPT ![i] = "panicked"]
                /\ compute_item' = [compute_item EXCEPT ![i] = NoItem]
           ELSE /\ compute_pc' = [compute_pc EXCEPT ![i] = "send"]
                /\ compute_item' = [compute_item EXCEPT ![i] = LineItem(to_string(result.paf))]
    /\ UNCHANGED <<hodeco_vars, call_vars, config_vars, main_vars, input_vars, input_channel,
                   output_channel, output_vars>>

\* output_sender.send(hodeco_paf_line) finds room
ComputeSend(i) ==
    /\ compute_pc[i] = "send"
    /\ OutputReceiverAlive
    /\ Len(output_channel) < configuration.queue_size
    /\ output_channel' = Append(output_channel, compute_item[i].hodeco_paf_line)
    /\ compute_pc' = [compute_pc EXCEPT ![i] = "recv"]
    /\ compute_item' = [compute_item EXCEPT ![i] = NoItem]
    /\ UNCHANGED <<hodeco_vars, call_vars, config_vars, main_vars, input_vars, input_channel,
                   output_vars>>

\* output_sender.send(hodeco_paf_line) returns Err: the output thread is gone
ComputeSendDisconnected(i) ==
    /\ compute_pc[i] = "send"
    /\ ~OutputReceiverAlive
    /\ compute_pc' = [compute_pc EXCEPT ![i] = "panicked"]
    /\ compute_item' = [compute_item EXCEPT ![i] = NoItem]
    /\ UNCHANGED <<hodeco_vars, call_vars, config_vars, main_vars, input_vars, input_channel,
                   output_channel, output_vars>>

(********************* output_thread, lines 125 - 136 **********************)
OutputRecv ==
    /\ output_pc = "recv"
    /\ output_channel # <<>>
    /\ output_item' = LineItem(Head(output_channel))
    /\ output_channel' = Tail(output_channel)
    /\ output_pc' = "write"
    /\ UNCHANGED <<hodeco_vars, call_vars, config_vars, main_vars, input_vars, input_channel,
                   compute_vars, file_vars>>

OutputRecvRendezvous(i) ==
    /\ output_pc = "recv"
    /\ configuration.queue_size = 0
    /\ compute_pc[i] = "send"
    /\ output_item' = compute_item[i]
    /\ output_pc' = "write"
    /\ compute_pc' = [compute_pc EXCEPT ![i] = "recv"]
    /\ compute_item' = [compute_item EXCEPT ![i] = NoItem]
    /\ UNCHANGED <<hodeco_vars, call_vars, config_vars, main_vars, input_vars, input_channel,
                   output_channel, file_vars>>

\* the first k lines of lines
Prefix(lines, k) == SubSeq(lines, 1, k)

\* a drop whose flush puts the buffered lines in front of the lines of the file
OutputRecvDisconnectedFlushInFront ==
    /\ output_pc = "recv"
    /\ output_channel = <<>>
    /\ ~OutputSenderAlive
    /\ output_pc' = "exited"
    /\ output_file' = output_file_writer \o output_file
    /\ output_file_writer' = <<>>
    /\ UNCHANGED <<hodeco_vars, call_vars, config_vars, main_vars, input_vars, input_channel,
                   compute_vars, output_channel, output_item, write_failed>>

\* output_receiver.recv() returns Err: the channel is empty and every sender is gone.  The
\* loop ends and output_file_writer is dropped: the drop flushes the buffer to the file.
OutputRecvDisconnected ==
    /\ output_pc = "recv"
    /\ output_channel = <<>>
    /\ ~OutputSenderAlive
    /\ output_pc' = "exited"
    /\ output_file' = output_file \o output_file_writer
    /\ output_file_writer' = <<>>
    /\ UNCHANGED <<hodeco_vars, call_vars, config_vars, main_vars, input_vars, input_channel,
                   compute_vars, output_channel, output_item, write_failed>>

\* the same, but the flush of the drop fails after k lines: the drop ignores the error
OutputRecvDisconnectedFlushError ==
    /\ output_pc = "recv"
    /\ output_channel = <<>>
    /\ ~OutputSenderAlive
    /\ output_file_writer # <<>>
    /\ output_pc' = "exited"
    /\ \E k \in 0..(Len(output_file_writer) - 1) :
           output_file' = output_file \o Prefix(output_file_writer, k)
    /\ output_file_writer' = <<>>
    /\ write_failed' = TRUE
    /\ UNCHANGED <<hodeco_vars, call_vars, config_vars, main_vars, input_vars, input_channel,
                   compute_vars, output_channel, output_item>>

\* the buffer of output_file_writer has no room for one more line (io_buffer_size is
\* counted in lines with their line feeds)
BufferFull == Len(output_file_writer) >= configuration.io_buffer_size

\* a writer that puts the line in front of what it holds
OutputWriteInFront ==
    /\ output_pc = "write"
    /\ LET line == [line |-> output_item.hodeco_paf_line, line_feed |-> TRUE]
       IN  IF configuration.io_buffer_size = 0
           THEN /\ output_file_writer' = <<>>
                /\ output_file' = <<line>> \o output_file
           ELSE /\ output_file_writer' = <<line>> \o output_file_writer
                /\ output_file' = output_file
    /\ output_pc' = "recv"
    /\ output_item' = NoItem
    /\ UNCHANGED <<hodeco_vars, call_vars, config_vars, main_vars, input_vars, input_channel,
                   compute_vars, output_channel, write_failed>>

\* write_all(line) and write_all(b"\n") both succeed: the line goes into the buffer, after
\* a flush of a full buffer, or straight to the file when the buffer holds nothing
OutputWrite ==
    /\ output_pc = "write"
    /\ LET line == [line |-> output_item.hodeco_paf_line, line_feed |-> TRUE]
       IN  IF ~BufferFull
           THEN /\ output_file_writer' = Append(output_file_writer, line)
                /\ output_file' = output_file
           ELSE IF configuration.io_buffer_size = 0
           THEN /\ output_file_writer' = <<>>
                /\ output_file' = Append(output_file, line)
           ELSE /\ output_file_writer' = <<line>>
                /\ output_file' = output_file \o output_file_writer
    /\ output_pc' = "recv"
    /\ output_item' = NoItem
    /\ UNCHANGED <<hodeco_vars, call_vars, config_vars, main_vars, input_vars, input_channel,
                   compute_vars, output_channel, write_failed>>

\* write_all fails and the thread panics: the flush of the full buffer fails, or the write
\* of the line or of its line feed to the file does; the drop of output_file_writer during
\* the unwinding flushes what is left in the buffer, or a part of it
OutputWriteError ==
    /\ output_pc = "write"
    /\ BufferFull
    /\ \/ /\ configuration.io_buffer_size = 0
          /\ \/ output_file' = output_file
             \/ output_file' = Append(output_file, [line |-> output_item.hodeco_paf_line, line_feed |-> FALSE])
       \/ /\ configuration.io_buffer_size > 0
          /\ \E k \in 0..Len(output_file_writer) :
                 output_file' = output_file \o Prefix(output_file_writer, k)
    /\ output_file_writer' = <<>>
    /\ write_failed' = TRUE
    /\ output_pc' = "panicked"
    /\ output_item' = NoItem
    /\ UNCHANGED <<hodeco_vars, call_vars, config_vars, main_vars, input_vars, input_channel,
                   compute_vars, output_channel>>

(***************************************************************************)
(* The run of the program: the maps are loaded, then the pipeline runs on  *)
(* an input file of at most MaxLines lines drawn from PipelineLines.       *)
(***************************************************************************)
PipelineQueryMaps == [name \in {"seq1"} |-> <<0, 1, 3, 4>>]
PipelineTargetMaps == [name \in {"seq1"} |-> <<0, 1, 2, 3>>]

\* 3M over the whole query: decompresses
PafMatch == PafLine("seq1", 3, 0, 3, "seq1", 3, 0, 3, 3, 3, Some(<<[op |-> "Match", count |-> 3]>>), None, None, None)
\* a mismatch on the compressed homopolymer run: decompresses
PafMismatch == PafLine("seq1", 3, 1, 3, "seq1", 3, 1, 3, 1, 2, None, Some(<<[op |-> "Mismatch", reference |-> "A", query |-> "C"], [op |-> "Match", length |-> 1]>>), Some(1), Some(<<1, 2>>))
\* a query sequence without hodeco map: hodeco_paf_line panics
PafUnknownQuery == PafLine("seq2", 3, 0, 3, "seq1", 3, 0, 3, 3, 3, None, None, None, None)

PipelineLines == {Parsable(PafMatch), Parsable(PafMismatch), Parsable(PafUnknownQuery), Unparsable}

PipelineIdle ==
    /\ spawned = 0
    /\ input_pc = "unspawned"
    /\ input_position = 0
    /\ input_item = NoItem
    /\ input_channel = <<>>
    /\ compute_pc = [i \in ComputeThreadIds |-> "unspawned"]
    /\ compute_item = [i \in ComputeThreadIds |-> NoItem]
    /\ output_channel = <<>>
    /\ output_pc = "unspawned"
    /\ output_item = NoItem
    /\ output_file_writer = <<>>
    /\ output_file = <<>>
    /\ write_failed = FALSE

Init ==
    /\ overflow_checks \in BOOLEAN
    /\ query_hodeco_maps = PipelineQueryMaps
    /\ target_hodeco_maps = PipelineTargetMaps
    /\ hoco_paf = PafMatch
    /\ hodeco_result = NotCalled
    /\ configuration \in [queue_size : 0..MaxQueueSize, compute_threads : 1..MaxComputeThreads,
                          io_buffer_size : 0..MaxIoBufferSize]
    /\ input_file \in SeqsUpTo(PipelineLines, MaxLines)
    /\ main_pc = "spawn_input"
    /\ PipelineIdle

Next ==
    \/ MainSpawnInput
    \/ MainSpawnOutput
    \/ MainSpawnCompute
    \/ MainEndScope
    \/ MainJoin
    \/ InputRead
    \/ InputSend
    \/ InputSendDisconnected
    \/ \E i \in ComputeThreadIds : ComputeRecv(i)
    \/ \E i \in ComputeThreadIds : ComputeRecvRendezvous(i)
    \/ \E i \in ComputeThreadIds : ComputeRecvDisconnected(i)
    \/ \E i \in ComputeThreadIds : ComputeHodeco(i)
    \/ \E i \in ComputeThreadIds : ComputeSend(i)
    \/ \E i \in ComputeThreadIds : ComputeSendDisconnected(i)
    \/ OutputRecv
    \/ \E i \in ComputeThreadIds : OutputRecvRendezvous(i)
    \/ OutputRecvDisconnected
    \/ OutputRecvDisconnectedFlushError
    \/ OutputWrite
    \/ OutputWriteError

Spec == Init /\ [][Next]_vars

(***************************************************************************)
(* Scheduling: main and every spawned thread are operating-system threads; *)
(* a thread that can take a step eventually takes one.                     *)
(***************************************************************************)
MainStep ==
    MainSpawnInput \/ MainSpawnOutput \/ MainSpawnCompute \/ MainEndScope \/ MainJoin

InputStep == InputRead \/ InputSend \/ InputSendDisconnected

ComputeStep(i) ==
    /\ i \in ComputeThreadIds
    /\ \/ ComputeRecv(i)
       \/ ComputeRecvRendezvous(i)
       \/ ComputeRecvDisconnected(i)
       \/ ComputeHodeco(i)
       \/ ComputeSend(i)
       \/ ComputeSendDisconnected(i)

OutputStep ==
    \/ OutputRecv
    \/ \E i \in ComputeThreadIds : OutputRecvRendezvous(i)
    \/ OutputRecvDisconnected
    \/ OutputRecvDisconnectedFlushError
    \/ OutputWrite
    \/ OutputWriteError

FairSpec ==
    /\ Spec
    /\ WF_vars(MainStep)
    /\ WF_vars(InputStep)
    /\ \A i \in 0..(MaxComputeThreads - 1) : WF_vars(ComputeStep(i))
    /\ WF_vars(OutputStep)

(***************************************************************************)
(* Direct calls of hodeco_paf_line, as a unit test makes them: the maps    *)
(* and the record are drawn from the families below, then the function is  *)
(* called once.                                                            *)
(***************************************************************************)
\* coordinates and lengths of an enumerated record: up to one past a free table
Coordinates == 0..MaxTableLen

IdentityTable == <<0, 1, 2, 3>>
MapsOf(table) == [name \in {"seq1"} |-> table]

\* the tables the CIGAR and difference families walk over
WalkTables == WellFormedTables \cup {<<0, 2, 1, 3>>, <<1, 2, 3, 4>>, <<0, 1, UsizeMax>>,
                                     <<0, UsizeMax, 1, 2>>}

CigarColumns ==
    [op : {"Match", "Insertion", "Deletion"}, count : {1, 2}]
    \cup {[op |-> "Mismatch", count |-> 1], [op |-> "Insertion", count |-> UsizeMax]}

DifferenceColumns ==
    [op : {"Match"}, length : {1, 2}]
    \cup [op : {"Deletion"}, missing_query_characters : {<<"A">>, <<"A", "C">>}]
    \cup [op : {"Insertion"}, superfluous_query_characters : {<<"C">>, <<"C", "A">>}]
    \cup [op : {"Mismatch"}, reference : {"A"}, query : {"C"}]
    \cup [op : {"Mismatch"}, reference : {"C"}, query : {"A"}]

NonEmptySeqsUpTo(S, n) == SeqsUpTo(S, n) \ {<<>>}

\* names and lengths: present or absent names, matching or other lengths
NamesFamily ==
    \E query_table \in SampleTables, target_table \in SampleTables :
    \E query_name \in SequenceNames, target_name \in SequenceNames :
    \E query_length \in Coordinates, target_length \in Coordinates :
        /\ query_hodeco_maps = MapsOf(query_table)
        /\ target_hodeco_maps = MapsOf(target_table)
        /\ hoco_paf = PafLine(query_name, query_length, 0, 2, target_name, target_length, 0, 2, 2, 2, None, None, None, None)

\* the coordinates of one sequence through any table; the other side is the identity
QueryScalarsFamily ==
    \E query_table \in AllTables :
    \E query_start \in Coordinates, query_end \in Coordinates :
    \E query_length \in {Wrap(Len(query_table) - 1)} :
        /\ query_hodeco_maps = MapsOf(query_table)
        /\ target_hodeco_maps = MapsOf(IdentityTable)
        /\ hoco_paf = PafLine("seq1", query_length, query_start, query_end, "seq1", 3, 0, 3, 2, 2, None, None, None, Some(<<1, 2>>))

TargetScalarsFamily ==
    \E target_table \in AllTables :
    \E target_start \in Coordinates, target_end \in Coordinates :
    \E target_length \in {Wrap(Len(target_table) - 1)} :
        /\ query_hodeco_maps = MapsOf(IdentityTable)
        /\ target_hodeco_maps = MapsOf(target_table)
        /\ hoco_paf = PafLine("seq1", 3, 0, 3, "seq1", target_length, target_start, target_end, 2, 2, None, None, None, None)

\* a CIGAR string walked over the tables, from the first or the second position
CigarFamily ==
    \E query_table \in WalkTables, target_table \in SampleTables :
    \E start \in {0, 1}, cigar \in NonEmptySeqsUpTo(CigarColumns, MaxCigarLen) :
        /\ query_hodeco_maps = MapsOf(query_table)
        /\ target_hodeco_maps = MapsOf(target_table)
        /\ hoco_paf = PafLine("seq1", Wrap(Len(query_table) - 1), start, Len(query_table) - 1, "seq1", Len(target_table) - 1, start, Len(target_table) - 1, 1, 2, Some(cigar), None, None, None)

\* a difference string walked over the tables
DifferenceFamily ==
    \E query_table \in WalkTables, target_table \in SampleTables :
    \E start \in {0, 1}, difference \in NonEmptySeqsUpTo(DifferenceColumns, MaxDifferenceLen) :
        /\ query_hodeco_maps = MapsOf(query_table)
        /\ target_hodeco_maps = MapsOf(target_table)
        /\ hoco_paf = PafLine("seq1", Wrap(Len(query_table) - 1), start, Len(query_table) - 1, "seq1", Len(target_table) - 1, start, Len(target_table) - 1, 1, 2, None, Some(difference), Some(1), None)

\* the sum of the counts of the runs of cigar whose kind is in ops
RECURSIVE SumOfCounts(_, _)
SumOfCounts(cigar, ops) ==
    IF cigar = <<>> THEN 0
    ELSE (IF Head(cigar).op \in ops THEN Head(cigar).count ELSE 0)
         + SumOfCounts(Tail(cigar), ops)

\* the mismatches and gaps a difference string shows: one per Mismatch entry, one per
\* character of an Insertion or Deletion entry
RECURSIVE MismatchesAndGaps(_)
MismatchesAndGaps(difference) ==
    IF difference = <<>> THEN 0
    ELSE LET column == Head(difference)
         IN  (CASE column.op = "Match" -> 0
                [] column.op = "Mismatch" -> 1
                [] column.op = "Insertion" -> Len(column.superfluous_query_characters)
                [] column.op = "Deletion" -> Len(column.missing_query_characters))
             + MismatchesAndGaps(Tail(difference))

\* records that are already decompressed, against identity tables: the counts are those
\* of the CIGAR and difference strings the record carries
IdentityFamily ==
    \E start \in {0, 1}, divergence \in {None, Some(<<1, 2>>)} :
    \E cigar \in {None} \cup {Some(c) : c \in NonEmptySeqsUpTo([op : {"Match", "Insertion", "Deletion"}, count : {1, 2}], MaxCigarLen)} :
    \E difference \in {None} \cup {Some(d) : d \in NonEmptySeqsUpTo(DifferenceColumns, MaxDifferenceLen)} :
    \E total \in {None} \cup {Some(MismatchesAndGaps(Unwrap(d))) : d \in {difference} \ {None}} :
        /\ IF IsSome(cigar) /\ IsSome(difference)
           THEN Len(Unwrap(cigar)) = 1 /\ Len(Unwrap(difference)) = 1
           ELSE TRUE
        /\ query_hodeco_maps = MapsOf(IdentityTable)
        /\ target_hodeco_maps = MapsOf(IdentityTable)
        /\ hoco_paf = PafLine("seq1", 3, start, 3, "seq1", 3, start, 3, IF IsSome(cigar) THEN SumOfCounts(Unwrap(cigar), {"Match"}) ELSE 2, IF IsSome(cigar) THEN SumOfCounts(Unwrap(cigar), {"Match", "Insertion", "Deletion"}) ELSE 3, cigar, difference, total, divergence)

\* Mismatch entries at any place of a longer difference string, over query tables with runs
PlacementColumns ==
    {[op |-> "Mismatch", reference |-> "A", query |-> "C"],
     [op |-> "Mismatch", reference |-> "C", query |-> "A"],
     [op |-> "Match", length |-> 1],
     [op |-> "Deletion", missing_query_characters |-> <<"A">>]}

MismatchPlacementFamily ==
    \E query_table \in WellFormedTablesOfLen(MaxRuns + 1) :
    \E difference \in NonEmptySeqsUpTo(PlacementColumns, MaxDifferenceLen + 1) :
        /\ query_hodeco_maps = MapsOf(query_table)
        /\ target_hodeco_maps = MapsOf(IdentityTable)
        /\ hoco_paf = PafLine("seq1", Len(query_table) - 1, 0, Len(query_table) - 1, "seq1", 3, 0, 3, 1, 2, None, Some(difference), Some(1), None)

\* the records of the pipeline runs, against the maps of those runs
ExamplesFamily ==
    /\ query_hodeco_maps = PipelineQueryMaps
    /\ target_hodeco_maps = PipelineTargetMaps
    /\ hoco_paf \in {PafMatch, PafMismatch, PafUnknownQuery}

HodecoInit ==
    /\ overflow_checks \in BOOLEAN
    /\ \/ ExamplesFamily
       \/ NamesFamily
       \/ QueryScalarsFamily
       \/ TargetScalarsFamily
       \/ CigarFamily
       \/ DifferenceFamily
       \/ IdentityFamily
       \/ MismatchPlacementFamily
    /\ hodeco_result = NotCalled
    /\ configuration = [queue_size |-> 0, compute_threads |-> 1, io_buffer_size |-> 0]
    /\ input_file = <<>>
    /\ main_pc = "not_started"
    /\ PipelineIdle

CallHodeco ==
    /\ hodeco_result = NotCalled
    /\ hodeco_result' = hodeco_paf_line(hoco_paf, query_hodeco_maps, target_hodeco_maps)
    /\ UNCHANGED <<hodeco_vars, hoco_paf, config_vars, main_vars, input_vars, input_channel,
                   compute_vars, output_channel, output_vars>>

HodecoNext == CallHodeco

HodecoSpec == HodecoInit /\ [][HodecoNext]_vars

(***************************************************************************)
(* Properties of hodeco_paf_line, checked under HodecoSpec.  Arithmetic is *)
(* usize arithmetic throughout: a sum or difference is exact unless it     *)
(* overflows, and an overflow panics (overflow checks on) or wraps.        *)
(***************************************************************************)
Called == hodeco_result # NotCalled
HasReturned == hodeco_result.state = "returned"
hodeco_paf == hodeco_result.paf

NamesKnown ==
    /\ hoco_paf.query_sequence_name \in DOMAIN query_hodeco_maps
    /\ hoco_paf.target_sequence_name \in DOMAIN target_hodeco_maps
QueryTable == query_hodeco_maps[hoco_paf.query_sequence_name]
TargetTable == target_hodeco_maps[hoco_paf.target_sequence_name]
Last(table) == table[Len(table)]

\* OffsetTable invariants of the data model: T[0] = 0 and non-decreasing
WellFormed(table) ==
    /\ Len(table) >= 1
    /\ table[1] = 0
    /\ \A i \in 1..(Len(table) - 1) : table[i] <= table[i + 1]

\* C6: a returned record carries query_table[last] and target_table[last] as lengths and
\* the table entries at the old coordinates as coordinates; over a table with T[0] = 0, the
\* full query span [0, query_length) becomes [0, T_query[last]).
ScalarRemapping ==
    HasReturned =>
        /\ hodeco_paf.query_sequence_length = Last(QueryTable)
        /\ hodeco_paf.target_sequence_length = Last(TargetTable)
        /\ hodeco_paf.query_start_coordinate = At(QueryTable, hoco_paf.query_start_coordinate)
        /\ hodeco_paf.query_end_coordinate = At(QueryTable, hoco_paf.query_end_coordinate)
        /\ hodeco_paf.target_start_coordinate_on_original_strand =
               At(TargetTable, hoco_paf.target_start_coordinate_on_original_strand)
        /\ hodeco_paf.target_end_coordinate_on_original_strand =
               At(TargetTable, hoco_paf.target_end_coordinate_on_original_strand)
        /\ (/\ QueryTable[1] = 0
            /\ hoco_paf.query_start_coordinate = 0
            /\ hoco_paf.query_end_coordinate = hoco_paf.query_sequence_length)
           => /\ hodeco_paf.query_start_coordinate = 0
              /\ hodeco_paf.query_end_coordinate = Last(QueryTable)

\* a full query span was remapped through a table that stretches it
ScalarRemappingWitness ==
    /\ HasReturned
    /\ QueryTable[1] = 0
    /\ hoco_paf.query_start_coordinate = 0
    /\ hoco_paf.query_end_coordinate = hoco_paf.query_sequence_length
    /\ hodeco_paf.query_end_coordinate > hoco_paf.query_end_coordinate
    /\ hodeco_paf.target_end_coordinate_on_original_strand = 3

(***************************************************************************)
(* The indexes the walks use, recomputed from the input record: the        *)
(* cursors start at the old start coordinates and advance by the old run   *)
(* lengths.                                                                *)
(***************************************************************************)
\* some column from i on indexes its table past the end, or is a Mismatch run
RECURSIVE CigarFails(_, _, _, _)
CigarFails(cigar, i, query_cursor, target_cursor) ==
    IF i > Len(cigar) THEN FALSE
    ELSE LET n == cigar[i].count
             query_next == Wrap(query_cursor + n)
             target_next == Wrap(target_cursor + n)
         IN  CASE cigar[i].op = "Mismatch" -> TRUE
               [] cigar[i].op = "Match" ->
                    \/ ~InBounds(QueryTable, query_next)
                    \/ CigarFails(cigar, i + 1, query_next, target_next)
               [] cigar[i].op = "Insertion" ->
                    \/ ~InBounds(QueryTable, query_next)
                    \/ CigarFails(cigar, i + 1, query_next, target_cursor)
               [] cigar[i].op = "Deletion" ->
                    \/ ~InBounds(TargetTable, target_next)
                    \/ CigarFails(cigar, i + 1, query_cursor, target_next)

\* some column from i on indexes its table past the end
RECURSIVE DifferencePastEnd(_, _, _, _)
DifferencePastEnd(difference, i, query_cursor, target_cursor) ==
    IF i > Len(difference) THEN FALSE
    ELSE LET column == difference[i]
         IN  CASE column.op = "Match" ->
                    \/ ~InBounds(QueryTable, Wrap(query_cursor + column.length))
                    \/ DifferencePastEnd(difference, i + 1, Wrap(query_cursor + column.length),
                                         Wrap(target_cursor + column.length))
               [] column.op = "Insertion" ->
                    LET n == Len(column.superfluous_query_characters)
                    IN  \/ ~InBounds(QueryTable, Wrap(query_cursor + n))
                        \/ DifferencePastEnd(difference, i + 1, Wrap(query_cursor + n),
                                             target_cursor)
               [] column.op = "Deletion" ->
                    LET n == Len(column.missing_query_characters)
                    IN  \/ ~InBounds(TargetTable, Wrap(target_cursor + n))
                        \/ DifferencePastEnd(difference, i + 1, query_cursor,
                                             Wrap(target_cursor + n))
               [] column.op = "Mismatch" ->
                    \/ ~InBounds(QueryTable, Wrap(query_cursor + 1))
                    \/ DifferencePastEnd(difference, i + 1, Wrap(query_cursor + 1),
                                         Wrap(target_cursor + 1))

NameAbsent == ~NamesKnown
LengthMismatch ==
    \/ hoco_paf.query_sequence_length # Len(QueryTable) - 1
    \/ hoco_paf.target_sequence_length # Len(TargetTable) - 1
CoordinatePastEnd ==
    \/ ~InBounds(QueryTable, hoco_paf.query_start_coordinate)
    \/ ~InBounds(QueryTable, hoco_paf.query_end_coordinate)
    \/ ~InBounds(TargetTable, hoco_paf.target_start_coordinate_on_original_strand)
    \/ ~InBounds(TargetTable, hoco_paf.target_end_coordinate_on_original_strand)
CigarInconsistent ==
    /\ IsSome(hoco_paf.cigar_string)
    /\ CigarFails(Unwrap(hoco_paf.cigar_string), 1, hoco_paf.query_start_coordinate,
                  hoco_paf.target_start_coordinate_on_original_strand)
DifferenceInconsistent ==
    /\ IsSome(hoco_paf.difference_string)
    /\ DifferencePastEnd(Unwrap(hoco_paf.difference_string), 1,
                         hoco_paf.query_start_coordinate,
                         hoco_paf.target_start_coordinate_on_original_strand)

ConsistencyError ==
    \/ NameAbsent
    \/ /\ NamesKnown
       /\ \/ LengthMismatch
          \/ CoordinatePastEnd
          \/ CigarInconsistent
          \/ DifferenceInconsistent

PositiveSpan ==
    HasReturned =>
        /\ hodeco_paf.query_end_coordinate > hodeco_paf.query_start_coordinate
        /\ hodeco_paf.target_end_coordinate_on_original_strand
               > hodeco_paf.target_start_coordinate_on_original_strand

\* the runs of the CIGAR string from column i on, each with the count the walk gives it
RECURSIVE ExpandedCigar(_, _, _, _)
ExpandedCigar(cigar, i, query_cursor, target_cursor) ==
    IF i > Len(cigar) THEN <<>>
    ELSE LET n == cigar[i].count
             query_next == Wrap(query_cursor + n)
             target_next == Wrap(target_cursor + n)
             on_query == Wrap(At(QueryTable, query_next) - At(QueryTable, query_cursor))
             on_target == Wrap(At(TargetTable, target_next) - At(TargetTable, target_cursor))
         IN  CASE cigar[i].op = "Match" ->
                    <<[op |-> "Match", count |-> on_query]>>
                    \o ExpandedCigar(cigar, i + 1, query_next, target_next)
               [] cigar[i].op = "Insertion" ->
                    <<[op |-> "Insertion", count |-> on_query]>>
                    \o ExpandedCigar(cigar, i + 1, query_next, target_cursor)
               [] cigar[i].op = "Deletion" ->
                    <<[op |-> "Deletion", count |-> on_target]>>
                    \o ExpandedCigar(cigar, i + 1, query_cursor, target_next)

\* C9: when a CIGAR string is present, a returned record holds the runs of the input in
\* their order, Match(n) and Insertion(n) met at query cursor qc with the count
\* query_table[qc + n] - query_table[qc], Deletion(n) met at target cursor tc with
\* target_table[tc + n] - target_table[tc] (Match advances both cursors by n, Insertion
\* the query cursor, Deletion the target cursor, from the old start coordinates); its
\* matching-base count is the sum of the expanded Match counts and its bases-and-gaps
\* count the sum of all expanded counts.  Table [0,1,3,4], span [0,3), Match(3) gives
\* span [0,4) and Match(4).
CigarExpansion ==
    /\ (HasReturned /\ IsSome(hoco_paf.cigar_string)) =>
          /\ hodeco_paf.cigar_string =
                 Some(ExpandedCigar(Unwrap(hoco_paf.cigar_string), 1,
                                    hoco_paf.query_start_coordinate,
                                    hoco_paf.target_start_coordinate_on_original_strand))
          /\ hodeco_paf.number_of_matching_bases =
                 Wrap(SumOfCounts(Unwrap(hodeco_paf.cigar_string), {"Match"}))
          /\ hodeco_paf.number_of_bases_and_gaps =
                 Wrap(SumOfCounts(Unwrap(hodeco_paf.cigar_string),
                                  {"Match", "Insertion", "Deletion"}))
    /\ (Called /\ hoco_paf = PafMatch /\ query_hodeco_maps = PipelineQueryMaps
            /\ target_hodeco_maps = PipelineTargetMaps) =>
          /\ HasReturned
          /\ hodeco_paf.query_start_coordinate = 0
          /\ hodeco_paf.query_end_coordinate = 4
          /\ hodeco_paf.cigar_string = Some(<<[op |-> "Match", count |-> 4]>>)

\* a Match followed by a Deletion, both stretched by their tables
CigarExpansionWitness ==
    /\ HasReturned
    /\ IsSome(hoco_paf.cigar_string)
    /\ Len(Unwrap(hoco_paf.cigar_string)) = 2
    /\ Unwrap(hoco_paf.cigar_string)[1].op = "Match"
    /\ Unwrap(hoco_paf.cigar_string)[2].op = "Deletion"
    /\ Unwrap(hodeco_paf.cigar_string)[1].count > Unwrap(hoco_paf.cigar_string)[1].count
    /\ Unwrap(hodeco_paf.cigar_string)[2].count > Unwrap(hoco_paf.cigar_string)[2].count
    /\ hodeco_paf.number_of_bases_and_gaps > hodeco_paf.number_of_matching_bases

IsMismatch(column) == column.op = "Mismatch"

\* the Mismatch entries the columns of difference from i on stand for: the one met at
\* query cursor c, query_table[c + 1] - query_table[c] times
RECURSIVE ExpectedMismatches(_, _, _)
ExpectedMismatches(difference, i, query_cursor) ==
    IF i > Len(difference) THEN <<>>
    ELSE LET column == difference[i]
         IN  CASE column.op = "Match" ->
                    ExpectedMismatches(difference, i + 1, Wrap(query_cursor + column.length))
               [] column.op = "Insertion" ->
                    ExpectedMismatches(difference, i + 1,
                        Wrap(query_cursor + Len(column.superfluous_query_characters)))
               [] column.op = "Deletion" ->
                    ExpectedMismatches(difference, i + 1, query_cursor)
               [] column.op = "Mismatch" ->
                    Repeat(column, At(QueryTable, query_cursor + 1)
                                   - At(QueryTable, query_cursor))
                    \o ExpectedMismatches(difference, i + 1, Wrap(query_cursor + 1))

\* C10: over a well-formed query table (non-decreasing, T[0] = 0), the Mismatch entries
\* of a returned difference string are, in order, those of the input, the one met at
\* query cursor c present query_table[c + 1] - query_table[c] times with its
\* (reference, query) pair.
MismatchSplitting ==
    (HasReturned /\ IsSome(hoco_paf.difference_string) /\ WellFormed(QueryTable)) =>
        SelectSeq(Unwrap(hodeco_paf.difference_string), IsMismatch)
            = ExpectedMismatches(Unwrap(hoco_paf.difference_string), 1,
                                 hoco_paf.query_start_coordinate)

\* two different mismatches were split, the first one into more entries
MismatchSplittingWitness ==
    /\ HasReturned
    /\ IsSome(hoco_paf.difference_string)
    /\ WellFormed(QueryTable)
    /\ Len(Unwrap(hoco_paf.difference_string)) = 2
    /\ IsMismatch(Unwrap(hoco_paf.difference_string)[1])
    /\ IsMismatch(Unwrap(hoco_paf.difference_string)[2])
    /\ Unwrap(hoco_paf.difference_string)[1] # Unwrap(hoco_paf.difference_string)[2]
    /\ Len(Unwrap(hodeco_paf.difference_string)) = 3
    /\ Unwrap(hodeco_paf.difference_string)[2] = Unwrap(hoco_paf.difference_string)[1]

\* C11: when a difference string is present, the total-mismatches-and-gaps count of a
\* returned record is the number of Mismatch entries of the returned difference string
\* plus the summed lengths of the character strings of its Insertion and Deletion entries.
TotalCountsReturnedEntries ==
    (HasReturned /\ IsSome(hoco_paf.difference_string)) =>
        hodeco_paf.total_number_of_mismatches_and_gaps
            = Some(Wrap(MismatchesAndGaps(Unwrap(hodeco_paf.difference_string))))

\* T[i] = i for all i
IsIdentity(table) == \A i \in 1..Len(table) : table[i] = i - 1

\* C12: a record whose query and target names resolve to identity tables of matching
\* length, whatever CIGAR string, difference string and total it carries, is returned
\* equal to the input record in every field.
IdentityNoOp ==
    (HasReturned /\ IsIdentity(QueryTable) /\ IsIdentity(TargetTable)) =>
        hodeco_paf = hoco_paf

\* characters from the i-th on, the one at offset k of the string repeated
\* table[cursor + k + 1] - table[cursor + k] times
RECURSIVE ExpectedString(_, _, _, _)
ExpectedString(characters, table, cursor, i) ==
    IF i > Len(characters) THEN <<>>
    ELSE Repeat(characters[i], Wrap(At(table, cursor + i) - At(table, cursor + i - 1)))
         \o ExpectedString(characters, table, cursor, i + 1)

\* the columns of difference from i on, each replaced in place by its expansion
RECURSIVE ExpectedDifference(_, _, _, _)
ExpectedDifference(difference, i, query_cursor, target_cursor) ==
    IF i > Len(difference) THEN <<>>
    ELSE LET column == difference[i]
         IN  CASE column.op = "Match" ->
                    <<[op |-> "Match",
                       length |-> Wrap(At(QueryTable, Wrap(query_cursor + column.length))
                                       - At(QueryTable, query_cursor))]>>
                    \o ExpectedDifference(difference, i + 1,
                                          Wrap(query_cursor + column.length),
                                          Wrap(target_cursor + column.length))
               [] column.op = "Insertion" ->
                    <<[op |-> "Insertion",
                       superfluous_query_characters |->
                           ExpectedString(column.superfluous_query_characters, QueryTable,
                                          query_cursor, 1)]>>
                    \o ExpectedDifference(difference, i + 1,
                           Wrap(query_cursor + Len(column.superfluous_query_characters)),
                           target_cursor)
               [] column.op = "Deletion" ->
                    <<[op |-> "Deletion",
                       missing_query_characters |->
                           ExpectedString(column.missing_query_characters, TargetTable,
                                          target_cursor, 1)]>>
                    \o ExpectedDifference(difference, i + 1, query_cursor,
                           Wrap(target_cursor + Len(column.missing_query_characters)))
               [] column.op = "Mismatch" ->
                    Repeat(column,
                           Wrap(Wrap(At(QueryTable, Wrap(query_cursor + 1))
                                     - At(QueryTable, query_cursor)) - 1) + 1)
                    \o ExpectedDifference(difference, i + 1, Wrap(query_cursor + 1),
                                          Wrap(target_cursor + 1))

\* C14: the difference string of a returned record is the input difference string with
\* every entry replaced in place by its expansion: a Match by one Match, an Insertion or
\* Deletion by one Insertion or Deletion, a Mismatch by hodeco_count + 1 adjacent
\* identical Mismatch entries; the order of the entries is that of the input and the
\* copies of one Mismatch stand together at the place of their original.
DeferredInsertionPreservesOrder ==
    (HasReturned /\ IsSome(hoco_paf.difference_string)) =>
        hodeco_paf.difference_string
            = Some(ExpectedDifference(Unwrap(hoco_paf.difference_string), 1,
                                      hoco_paf.query_start_coordinate,
                                      hoco_paf.target_start_coordinate_on_original_strand))

\* two different Mismatch entries with a Match between them, and both were split
DeferredInsertionPreservesOrderWitness ==
    /\ HasReturned
    /\ IsSome(hoco_paf.difference_string)
    /\ Len(Unwrap(hoco_paf.difference_string)) = 3
    /\ IsMismatch(Unwrap(hoco_paf.difference_string)[1])
    /\ Unwrap(hoco_paf.difference_string)[2].op = "Match"
    /\ IsMismatch(Unwrap(hoco_paf.difference_string)[3])
    /\ Unwrap(hoco_paf.difference_string)[1] # Unwrap(hoco_paf.difference_string)[3]
    /\ Len(Unwrap(hodeco_paf.difference_string)) = 5
    /\ Unwrap(hodeco_paf.difference_string)[2] = Unwrap(hoco_paf.difference_string)[1]
    /\ Unwrap(hodeco_paf.difference_string)[5] = Unwrap(hoco_paf.difference_string)[3]

\* the state of the first loop over the difference string after its first k columns
WalkedColumns(k) ==
    DifferenceWalk(DifferenceState(hoco_paf.query_start_coordinate,
                                   hoco_paf.target_start_coordinate_on_original_strand,
                                   0, <<>>, <<>>),
                   SubSeq(Unwrap(hoco_paf.difference_string), 1, k), 0, QueryTable, TargetTable)

\* what the loop has done with a column of characters met at cursor: stored is the string
\* the column holds afterwards, moved_to the cursor of its side afterwards, added what
\* the accumulator has grown by
StringDecompressed(characters, stored, table, cursor, moved_to, added) ==
    /\ stored = ExpectedString(characters, table, cursor, 1)
    /\ Len(stored) = Wrap(At(table, cursor + Len(characters)) - At(table, cursor))
    /\ moved_to = cursor + Len(characters)
    /\ added = Len(stored)

\* C15: a Deletion met at target cursor tc (an Insertion met at query cursor qc) is stored
\* as the string whose character at position i is repeated
\* table[c + i + 1] - table[c + i] times, in the original order, so that its length is
\* table[c + len] - table[c]; the cursor of that side advances by the compressed len,
\* the other cursor stays, and the decompressed length is added to the accumulator.
CharacterStringDecompression ==
    (Called /\ NamesKnown /\ IsSome(hoco_paf.difference_string)) =>
        \A k \in 1..Len(Unwrap(hoco_paf.difference_string)) :
            LET column == Unwrap(hoco_paf.difference_string)[k]
                before == TheOne({WalkedColumns(k - 1)})
                after == TheOne({WalkedColumns(k)})
            IN  (~after.panic /\ column.op \in {"Deletion", "Insertion"}) =>
                    LET added == Wrap(after.total_number_of_mismatches_and_gaps
                                      - before.total_number_of_mismatches_and_gaps)
                    IN  IF column.op = "Deletion"
                        THEN /\ StringDecompressed(column.missing_query_characters,
                                    after.difference_string[k].missing_query_characters,
                                    TargetTable, before.target_offset, after.target_offset,
                                    added)
                             /\ after.query_offset = before.query_offset
                        ELSE /\ StringDecompressed(column.superfluous_query_characters,
                                    after.difference_string[k].superfluous_query_characters,
                                    QueryTable, before.query_offset, after.query_offset,
                                    added)
                             /\ after.target_offset = before.target_offset

\* a Deletion of two characters became three, then an Insertion grew as well
CharacterStringDecompressionWitness ==
    /\ HasReturned
    /\ IsSome(hoco_paf.difference_string)
    /\ Len(Unwrap(hoco_paf.difference_string)) = 2
    /\ Unwrap(hoco_paf.difference_string)[1]
           = [op |-> "Deletion", missing_query_characters |-> <<"A", "C">>]
    /\ Unwrap(hodeco_paf.difference_string)[1]
           = [op |-> "Deletion", missing_query_characters |-> <<"C", "C", "C">>]
    /\ Unwrap(hoco_paf.difference_string)[2].op = "Insertion"
    /\ Len(Unwrap(hodeco_paf.difference_string)[2].superfluous_query_characters)
           > Len(Unwrap(hoco_paf.difference_string)[2].superfluous_query_characters)
    /\ Unwrap(hodeco_paf.total_number_of_mismatches_and_gaps) > 3

\* the runs of the CIGAR string of the input span the query (the target) span of the
\* input, in compressed units
QuerySpanConsistent ==
    /\ IsSome(hoco_paf.cigar_string)
    /\ SumOfCounts(Unwrap(hoco_paf.cigar_string), {"Match", "Insertion"})
           = hoco_paf.query_end_coordinate - hoco_paf.query_start_coordinate
TargetSpanConsistent ==
    /\ IsSome(hoco_paf.cigar_string)
    /\ SumOfCounts(Unwrap(hoco_paf.cigar_string), {"Match", "Deletion"})
           = hoco_paf.target_end_coordinate_on_original_strand
             - hoco_paf.target_start_coordinate_on_original_strand

\* C18: when the Match and Insertion counts of the input CIGAR string sum to
\* old query_end - old query_start, the Match and Insertion counts of the returned CIGAR
\* string sum to new query_end - new query_start: as usize values over any table, and
\* exactly over a non-decreasing table with T[0] = 0.
QuerySpanConsistency ==
    (HasReturned /\ QuerySpanConsistent) =>
        LET expanded == SumOfCounts(Unwrap(hodeco_paf.cigar_string), {"Match", "Insertion"})
            span == hodeco_paf.query_end_coordinate - hodeco_paf.query_start_coordinate
        IN  /\ Wrap(expanded) = Wrap(span)
            /\ WellFormed(QueryTable) => expanded = span

\* a Match and an Insertion that span the query span were both stretched
QuerySpanConsistencyWitness ==
    /\ HasReturned
    /\ QuerySpanConsistent
    /\ WellFormed(QueryTable)
    /\ Len(Unwrap(hoco_paf.cigar_string)) = 2
    /\ Unwrap(hoco_paf.cigar_string)[1].op = "Insertion"
    /\ Unwrap(hoco_paf.cigar_string)[2].op = "Match"
    /\ Unwrap(hodeco_paf.cigar_string)[1].count > Unwrap(hoco_paf.cigar_string)[1].count
    /\ Unwrap(hodeco_paf.cigar_string)[2].count > Unwrap(hoco_paf.cigar_string)[2].count

\* C19: when the Match and Deletion counts of the input CIGAR string sum to
\* old target_end - old target_start, the Match and Deletion counts of the returned CIGAR
\* string sum to new target_end - new target_start: every expanded run is as long as the
\* decompressed target bases it spans.
TargetSpanConsistency ==
    (HasReturned /\ TargetSpanConsistent) =>
        LET expanded == SumOfCounts(Unwrap(hodeco_paf.cigar_string), {"Match", "Deletion"})
            span == hodeco_paf.target_end_coordinate_on_original_strand
                    - hodeco_paf.target_start_coordinate_on_original_strand
        IN  Wrap(expanded) = Wrap(span)

(***************************************************************************)
(* Properties of the pipeline, checked under Spec and FairSpec.  A line of *)
(* the input file is followed through the pipeline by the line its record  *)
(* is written as.                                                          *)
(***************************************************************************)
\* the line a record is written as, or a mark when hodeco_paf_line panics on it
ExpectedOf(paf) ==
    LET result == hodeco_paf_line(paf, query_hodeco_maps, target_hodeco_maps)
    IN  IF result = Panic THEN <<"panic">> ELSE to_string(result.paf)

ExpectedOfLine(line) ==
    IF line.kind = "unparsable" THEN <<"unparsable">> ELSE ExpectedOf(line.paf)

\* for the first k lines of the input file
ExpectedLines(k) == [i \in 1..k |-> ExpectedOfLine(input_file[i])]

Lines(file) == [i \in 1..Len(file) |-> file[i].line]

\* the lines output_file_writer has accepted, in the order of the write_all calls
Appended == Lines(output_file) \o Lines(output_file_writer)

\* what the compute threads i, i + 1, ... hold
RECURSIVE ComputeHeld(_)
ComputeHeld(i) ==
    IF i \notin ComputeThreadIds THEN <<>>
    ELSE (CASE compute_pc[i] = "hodeco" -> <<ExpectedOf(compute_item[i].paf_line)>>
            [] compute_pc[i] = "send" -> <<compute_item[i].hodeco_paf_line>>
            [] OTHER -> <<>>)
         \o ComputeHeld(i + 1)

\* the records that have left the input file and are not yet with the writer
InFlight ==
    (IF input_pc = "send" THEN <<ExpectedOf(input_item.paf_line)>> ELSE <<>>)
    \o [i \in 1..Len(input_channel) |-> ExpectedOf(input_channel[i])]
    \o ComputeHeld(0)
    \o output_channel
    \o (IF output_pc = "write" THEN <<output_item.hodeco_paf_line>> ELSE <<>>)

Count(lines, line) == Cardinality({i \in 1..Len(lines) : lines[i] = line})

\* lines and others hold the same lines the same number of times
SameBag(lines, others) ==
    /\ Len(lines) = Len(others)
    /\ \A i \in 1..Len(lines) : Count(lines, lines[i]) = Count(others, lines[i])

IsPrefix(lines, others) ==
    /\ Len(lines) <= Len(others)
    /\ \A i \in 1..Len(lines) : lines[i] = others[i]

\* C1: as long as no thread has panicked and no write has failed, the records read so far
\* are, each exactly once, in a channel, held by one thread, or appended by the writer;
\* in a run that ends with "Done" without a failed write the lines of the output file
\* are, as a multiset, the hodeco results of all records of the input file, each with its
\* line feed.
ExactlyOnceDelivery ==
    /\ (~AnyPanicked /\ ~write_failed) =>
           SameBag(ExpectedLines(input_position), InFlight \o Appended)
    /\ (main_pc = "done" /\ ~write_failed) =>
           /\ SameBag(ExpectedLines(Len(input_file)), Lines(output_file))
           /\ \A i \in 1..Len(output_file) : output_file[i].line_feed

\* two compute threads have delivered two different records in the other order
ExactlyOnceDeliveryWitness ==
    /\ main_pc = "done"
    /\ ~write_failed
    /\ configuration.compute_threads = 2
    /\ Len(input_file) = 2
    /\ Len(output_file) = 2
    /\ input_file[1] # input_file[2]
    /\ output_file[1].line = ExpectedOfLine(input_file[2])
    /\ output_file[2].line = ExpectedOfLine(input_file[1])

\* hodeco_paf_line returns a record for every line of the input file
ErrorFreeInput ==
    \A i \in 1..Len(input_file) :
        /\ input_file[i].kind = "paf"
        /\ hodeco_paf_line(input_file[i].paf, query_hodeco_maps, target_hodeco_maps) # Panic

Finished ==
    /\ main_pc = "done"
    /\ input_pc = "exited"
    /\ \A i \in ComputeThreadIds : compute_pc[i] = "exited"
    /\ output_pc = "exited"
    /\ input_channel = <<>>
    /\ output_channel = <<>>

\* C2: on an input file without error every fair run in which no write fails reaches the
\* state where the input thread, every compute thread and the output thread have exited,
\* both channels are empty and main has left the scope; a compute thread exits only once
\* the input thread has ended and the input channel is empty, the output thread only once
\* every compute thread has ended and the output channel is empty, and main leaves the
\* scope only once every thread has ended.
NaturalExhaustion ==
    /\ ErrorFreeInput => <>(Finished \/ write_failed)
    /\ [](\A i \in ComputeThreadIds :
              compute_pc[i] = "exited" => (Terminated(input_pc) /\ input_channel = <<>>))
    /\ [](output_pc = "exited" =>
              /\ \A i \in ComputeThreadIds : Terminated(compute_pc[i])
              /\ output_channel = <<>>)
    /\ [](main_pc \in {"done", "failed"} => AllTerminated)

\* two records went through rendezvous channels and two compute threads to the end
NaturalExhaustionWitness ==
    /\ Finished
    /\ ~write_failed
    /\ configuration.queue_size = 0
    /\ configuration.compute_threads = 2
    /\ Len(input_file) = 2
    /\ Len(output_file) = 2

FailFast ==
    [][AnyPanicked =>
           /\ \A i \in ComputeThreadIds : ~(compute_pc[i] = "hodeco" /\ compute_pc'[i] = "send")
           /\ ~(output_pc = "write" /\ output_pc' = "recv")]_vars

\* a thread has panicked or a write to the output file has failed
StageFailed == AnyPanicked \/ write_failed

\* C5: once a stage has failed, every thread eventually ends and the run ends as a
\* failure; "Done" is never reached in a run in which a stage has failed.
FailureEndsAsFailure ==
    /\ StageFailed ~> (AllTerminated /\ main_pc = "failed")
    /\ [](main_pc = "done" => ~StageFailed)

\* a compute thread leaves its call of hodeco_paf_line in this step
Decompresses(i) == compute_pc[i] = "hodeco" /\ compute_pc'[i] # "hodeco"

\* C13: in every state of the pipeline both maps of offset tables are the maps the
\* pipeline started with, whatever calls of hodeco_paf_line the compute threads have made,
\* returned or panicked; a call changes nothing but the record and the position of the
\* thread that made it.
OffsetTablesNeverMutated ==
    /\ [](query_hodeco_maps = PipelineQueryMaps /\ target_hodeco_maps = PipelineTargetMaps)
    /\ [][\A i \in ComputeThreadIds :
              Decompresses(i) =>
                  /\ UNCHANGED <<hodeco_vars, call_vars, config_vars, main_vars, input_vars,
                                 input_channel, output_channel, output_vars>>
                  /\ \A j \in ComputeThreadIds \ {i} :
                         /\ compute_pc'[j] = compute_pc[j]
                         /\ compute_item'[j] = compute_item[j]]_vars

\* two compute threads have called hodeco_paf_line: one call panicked, one returned
OffsetTablesNeverMutatedWitness ==
    /\ configuration.compute_threads = 2
    /\ OutputReceiverAlive
    /\ \E i \in ComputeThreadIds, j \in ComputeThreadIds :
           /\ compute_pc[i] = "panicked"
           /\ compute_pc[j] = "send"
    /\ query_hodeco_maps = PipelineQueryMaps
    /\ target_hodeco_maps = PipelineTargetMaps

\* a thread suspended in send: the channel holds queue_size messages and has a receiver
InputSendBlocked ==
    /\ input_pc = "send"
    /\ Len(input_channel) >= configuration.queue_size
    /\ InputReceiverAlive
ComputeSendBlocked(i) ==
    /\ compute_pc[i] = "send"
    /\ Len(output_channel) >= configuration.queue_size
    /\ OutputReceiverAlive

\* a thread suspended in recv: the channel is empty and has a sender
ComputeRecvBlocked(i) ==
    /\ compute_pc[i] = "recv"
    /\ input_channel = <<>>
    /\ InputSenderAlive
OutputRecvBlocked ==
    /\ output_pc = "recv"
    /\ output_channel = <<>>
    /\ OutputSenderAlive

\* this step hands the message of the input thread to compute thread i, or the message
\* of compute thread i to the output thread: the pop is the end of the push
InputHandedTo(i) ==
    /\ input_pc = "send" /\ input_pc' = "read"
    /\ compute_pc[i] = "recv" /\ compute_pc'[i] = "hodeco"
    /\ compute_item'[i] = input_item
    /\ UNCHANGED input_channel
OutputHandedFrom(i) ==
    /\ compute_pc[i] = "send" /\ compute_pc'[i] = "recv"
    /\ output_pc = "recv" /\ output_pc' = "write"
    /\ output_item' = compute_item[i]
    /\ UNCHANGED output_channel

\* C16: neither channel ever holds more than queue_size messages; a thread whose send
\* finds its channel full, or whose recv finds its channel empty with a sender left, takes
\* no step of its own: its state changes only in a step in which another thread pops
\* (pushes) the very message, and otherwise only after a pop, a push or the closing of
\* the channel has ended the condition.
Backpressure ==
    /\ [](/\ Len(input_channel) <= configuration.queue_size
          /\ Len(output_channel) <= configuration.queue_size)
    /\ [][/\ InputSendBlocked =>
                \/ UNCHANGED input_vars
                \/ \E i \in ComputeThreadIds : InputHandedTo(i)
          /\ \A i \in ComputeThreadIds :
                /\ ComputeSendBlocked(i) =>
                      \/ compute_pc'[i] = compute_pc[i] /\ compute_item'[i] = compute_item[i]
                      \/ OutputHandedFrom(i)
                /\ ComputeRecvBlocked(i) =>
                      \/ compute_pc'[i] = compute_pc[i] /\ compute_item'[i] = compute_item[i]
                      \/ InputHandedTo(i)
          /\ OutputRecvBlocked =>
                \/ UNCHANGED output_vars
                \/ \E i \in ComputeThreadIds : OutputHandedFrom(i)]_vars

\* the input thread waits for room in the full input channel while the output thread
\* waits for a message in the empty output channel
BackpressureWitness ==
    /\ configuration.queue_size = 1
    /\ InputSendBlocked
    /\ Len(input_channel) = 1
    /\ OutputRecvBlocked

\* the lines the writer has accepted are not the first lines of the input, in its order
OutOfInputOrder == ~IsPrefix(Appended, ExpectedLines(Len(input_file)))

\* C17: with two or more compute threads and two or more records a run is reachable in
\* which the lines are written in another order than the records were read
\* (OrderNotGuaranteedWitness is such a run); the lines are out of the input order only
\* in runs with at least two compute threads and at least two records.
OrderNotGuaranteed ==
    (configuration.compute_threads < 2 \/ Len(input_file) < 2) => ~OutOfInputOrder

\* a run of two compute threads on two different records has ended with "Done", every
\* write succeeded, and the output file holds the line of the second record first
OrderNotGuaranteedWitness ==
    /\ configuration.compute_threads >= 2
    /\ input_file = <<Parsable(PafMatch), Parsable(PafMismatch)>>
    /\ main_pc = "done"
    /\ ~write_failed
    /\ ~AnyPanicked
    /\ ExpectedLines(2)[1] # ExpectedLines(2)[2]
    /\ Lines(output_file) = <<ExpectedLines(2)[2], ExpectedLines(2)[1]>>
    /\ OutOfInputOrder
====
